---- MODULE Spec2Model ----
(***************************************************************************)
(* Connection bring-up of the Feather server                               *)
(* (crates/server/src/network/initial_handling.rs).                        *)
(*                                                                         *)
(* Every connection is one cooperative task running handle().  The state   *)
(* of a task is the await it is suspended at (pc), its local variables     *)
(* (loc), the encryption state of its codec (codec), what has happened on  *)
(* the connection so far (trace) and the value handle() returned (result). *)
(* One action completes the pending await with an outcome chosen by the    *)
(* peer (the packet read, the success of a write, the answer of the        *)
(* session service) and runs the synchronous code up to the next await.    *)
(*                                                                         *)
(* Spec follows one connection, SpecConc all connections interleaved,      *)
(* SpecCancel one connection whose task may be dropped at an await.        *)
(* SpecPlayer applies the slot conversions of InventorySlot                *)
(* (core/anvil/src/player.rs) and SpecDigest applies hexdigest() to the    *)
(* inputs drawn by their initial predicates.                               *)
(***************************************************************************)
EXTENDS Integers, Sequences, FiniteSets, TLC

VARIABLES
    online_mode,      \* config.server.online_mode
    max_players,      \* config.server.max_players
    player_count,     \* server().player_count, changed by the surrounding server
    rsa_key,          \* static RSA_KEY (Lazy)
    rsa_key_encoded,  \* static RSA_KEY_ENCODED (Lazy)
    pc,               \* per connection: the await the task is suspended at
    loc,              \* per connection: local variables of handle() and callees
    codec,            \* per connection: worker.codec() encryption state
    trace,            \* per connection: completed reads, writes and internal steps
    result,           \* per connection: value returned by handle()
    io,               \* per connection: the reads and writes in flight
    player,           \* an InventorySlot under conversion (core/anvil/src/player.rs)
    digest            \* a byte string under hexdigest()

vars == <<online_mode, max_players, player_count, rsa_key, rsa_key_encoded,
          pc, loc, codec, trace, result, io, player, digest>>

----------------------------------------------------------------------------
(* Bounds of the model *)

NumConns == 2
NumKeys == 1
NumUuids == 2
MaxByte == 1
MaxOnline == 2

(* Program constants *)

PROTOCOL_VERSION == 751
TokenLen == 16
CryptKeyLen == 16

Conns == 1..NumConns
\* The connection whose task Spec follows.
Solo == {c \in Conns : \A d \in Conns : c <= d}
RsaKeys == 1..NumKeys
Uuids == 1..NumUuids
Names == {"alice", "bob"}
MaxPlayersValues == {0, 20}

----------------------------------------------------------------------------
(* Bytes *)

Byte(n) == n % 256

\* The 16-byte values rand::random() is taken to produce.
Tokens == {[i \in 1..TokenLen |-> b] : b \in 0..MaxByte}

\* Plaintexts a client may put in an EncryptionResponse: a token, a token
\* with its first or its last byte changed, one byte shorter, one byte
\* longer, and the empty string.
Variants(t) ==
    { t,
      [t EXCEPT ![1] = Byte(t[1] + 1)],
      [t EXCEPT ![TokenLen] = Byte(t[TokenLen] + 255)],
      SubSeq(t, 1, TokenLen - 1),
      Append(t, 0),
      <<>> }

Plains == UNION {Variants(t) : t \in Tokens}

\* A 64-bit Ping payload as its eight big-endian bytes.
Payloads ==
    { <<0, 0, 0, 0, 0, 0, 0, 0>>,
      <<255, 255, 255, 255, 255, 255, 255, 255>>,
      <<128, 0, 0, 0, 0, 0, 0, 0>>,
      <<127, 255, 255, 255, 255, 255, 255, 255>>,
      <<17, 34, 51, 68, 85, 102, 119, 136>> }

----------------------------------------------------------------------------
(* Packets *)

HandshakePackets == {[type |-> "Handshake", next_state |-> n] : n \in {"Status", "Login"}}

RequestPacket == [type |-> "Request"]

PingPackets == {[type |-> "Ping", payload |-> p] : p \in Payloads}

\* An RSA ciphertext: the plaintext m under PKCS#1 v1.5 for the public key
\* k, or bytes that are a valid ciphertext for no key (k = 0).
CipherTexts ==
    {[k |-> 0, m |-> <<>>]} \cup {[k |-> k, m |-> m] : k \in RsaKeys, m \in Plains}

\* The variants of ClientLoginPacket.
ClientLoginPackets ==
    {[type |-> "LoginStart", name |-> n] : n \in Names}
    \cup {[type |-> "EncryptionResponse", shared_secret |-> s, verify_token |-> v] :
            s \in CipherTexts, v \in CipherTexts}

NoPacket == [type |-> "None"]

\* What worker.read::<P>() resolves to: a packet of P, or an error (EOF, a
\* malformed frame, a frame that is no packet of P).
ReadOutcomes(P) == {[ok |-> TRUE, pkt |-> p] : p \in P} \cup {[ok |-> FALSE, pkt |-> NoPacket]}

\* Body of the session service's answer: a JSON document that decodes as
\* AuthResponse {id, name, properties}, or anything else (empty, an error
\* document, the text of a transport error).
Bodies ==
    {[json |-> FALSE, id |-> 0, name |-> ""]}
    \cup {[json |-> TRUE, id |-> u, name |-> n] : u \in Uuids, n \in Names}

HttpStatuses == {200, 204, 403, 500}

\* What the blocking task resolves to: it completed with an HTTP response
\* (for a transport error ureq hands back a synthetic response with an
\* error status and the error text as body), or it did not complete
\* (JoinError).
AuthOutcomes ==
    {[joined |-> TRUE, status |-> s, body |-> b] : s \in HttpStatuses, b \in Bodies}
    \cup {[joined |-> FALSE, status |-> 0, body |-> [json |-> FALSE, id |-> 0, name |-> ""]]}

Is2xx(status) == 200 <= status /\ status <= 299

----------------------------------------------------------------------------
(* Values of the program *)

Ok(v) == [ok |-> TRUE, val |-> v]
Err(v) == [ok |-> FALSE, val |-> v]

NoProfile == [id |-> 0, name |-> "", properties |-> <<>>]
NoPlayer == [username |-> "", uuid |-> 0]
NoFrame == [pkt |-> NoPacket, encrypted |-> FALSE, key |-> <<>>]

NoResult == [kind |-> "none", player |-> NoPlayer]
Failed == [kind |-> "Err", player |-> NoPlayer]
Disconnect == [kind |-> "Disconnect", player |-> NoPlayer]
Join(p) == [kind |-> "Join", player |-> p]

CodecPlain == [encrypted |-> FALSE, key |-> <<>>]

\* worker.codec().enable_encryption(key)
CodecEnableEncryption(cd, key) == [encrypted |-> TRUE, key |-> key]

\* The frame worker.write(pkt) hands to the socket: the codec encodes the
\* packet with the encryption state it has when write is called.
Frame(cd, pkt) == [pkt |-> pkt, encrypted |-> cd.encrypted, key |-> cd.key]

Event(e, a) == [ev |-> e, arg |-> a]

NoLocals ==
    [name |-> "", verify_token |-> <<>>, shared_secret |-> <<>>,
     response |-> NoProfile, out |-> NoFrame]

----------------------------------------------------------------------------
(* RSA key and its DER encoding *)

\* A Lazy before its first use; `runs` counts the runs of its initializer.
NoKey == [init |-> FALSE, key |-> 0, runs |-> 0]
NoDer == [init |-> FALSE, der |-> [spki |-> 0], runs |-> 0]

\* Lazy::new(|| RSAPrivateKey::new(&mut OsRng, RSA_BITS)): forced on first
\* use with a key k the generator picks, kept afterwards.
ForceRsaKey(lazy, k) ==
    IF lazy.init THEN lazy ELSE [init |-> TRUE, key |-> k, runs |-> lazy.runs + 1]

\* rsa_der::public_key_to_der(n, e)
PublicKeyToDer(k) == [spki |-> k]

\* The encoding computed by a plain function on every use, not cached.
ForceRsaKeyEncodedUncached(lazy, key) ==
    [init |-> TRUE, der |-> PublicKeyToDer(key.key), runs |-> lazy.runs + 1]

\* Lazy::new(|| rsa_der::public_key_to_der(RSA_KEY.n(), RSA_KEY.e())):
\* computed on first use from the forced RSA_KEY, kept afterwards.
ForceRsaKeyEncoded(lazy, key) ==
    IF lazy.init THEN lazy
    ELSE [init |-> TRUE, der |-> PublicKeyToDer(key.key), runs |-> lazy.runs + 1]

\* RSA_KEY.decrypt(PaddingScheme::PKCS1v15Encrypt, ct)
Decrypt(key, ct) == IF ct.k = key.key /\ ct.k # 0 THEN Ok(ct.m) ELSE Err(<<>>)

----------------------------------------------------------------------------
(* Synchronous code of initial_handling.rs *)

\* HandleDispatch sending every handshake to the login flow.
HandleDispatchLogin(next_state) == "r_login"

\* handle: match handshake.next_state
HandleDispatch(next_state) == IF next_state = "Status" THEN "r_request" ELSE "r_login"

\* handle_status: the Response built from the configuration and the counter
\* (the fields of the JSON document); max is an i32, online a usize.
StatusResponse(max, online) ==
    [type |-> "Response", name |-> "Feather 1.16.2", protocol |-> PROTOCOL_VERSION,
     max |-> max, online |-> online]

\* PongOf keeping the low 32 bits of the payload.
PongOfTruncated(ping) ==
    [type |-> "Pong", payload |-> <<0, 0, 0, 0>> \o SubSeq(ping.payload, 5, 8)]

\* handle_status: Pong { payload: ping.payload }
PongOf(ping) == [type |-> "Pong", payload |-> ping.payload]

\* compute_offline_mode_profile with the nil uuid in place of a fresh one.
compute_offline_mode_profile_nil(username, uuid) ==
    [id |-> 0, name |-> username, properties |-> <<>>]

compute_offline_mode_profile(username, uuid) ==
    [id |-> uuid, name |-> username, properties |-> <<>>]

\* do_encryption_handshake: the request sent to the client
EncryptionRequestOf(der, verify_token) ==
    [type |-> "EncryptionRequest", server_id |-> "", public_key |-> der.der,
     verify_token |-> verify_token]

\* TokensMatch comparing byte by byte for as long as both sides have bytes.
TokensMatchZipped(received, sent) ==
    \A i \in 1..(IF Len(received) < Len(sent) THEN Len(received) ELSE Len(sent)) :
        received[i] = sent[i]

\* do_encryption_handshake: received_verify_token != verify_token compares
\* a Vec<u8> with a [u8; 16], length and bytes.
TokensMatch(received, sent) == received = sent

\* TryIntoCryptKey taking the first 16 bytes of a longer secret.
TryIntoCryptKeyTruncating(bytes) ==
    IF Len(bytes) >= CryptKeyLen THEN Ok(SubSeq(bytes, 1, CryptKeyLen)) ELSE Err(<<>>)

\* do_encryption_handshake: (&shared_secret[..]).try_into() to CryptKey
TryIntoCryptKey(bytes) == IF Len(bytes) = CryptKeyLen THEN Ok(bytes) ELSE Err(<<>>)

\* DecryptResponse returning the decrypted verify token as the key.
DecryptResponseSwapped(key, verify_token, r) ==
    LET shared_secret == Decrypt(key, r.shared_secret)
        received_verify_token == Decrypt(key, r.verify_token)
    IN  IF ~shared_secret.ok THEN Err(<<>>)
        ELSE IF ~received_verify_token.ok THEN Err(<<>>)
        ELSE IF received_verify_token.val # verify_token THEN Err(<<>>)
        ELSE IF Len(shared_secret.val) # CryptKeyLen THEN Err(<<>>)
        ELSE Ok(received_verify_token.val)

\* do_encryption_handshake, after the EncryptionResponse r has been read:
\* decrypt the shared secret, decrypt the verify token, compare, convert.
DecryptResponse(key, verify_token, r) ==
    LET shared_secret == Decrypt(key, r.shared_secret)
        received_verify_token == Decrypt(key, r.verify_token)
    IN  IF ~shared_secret.ok THEN Err(<<>>)
        ELSE IF ~received_verify_token.ok THEN Err(<<>>)
        ELSE IF ~TokensMatch(received_verify_token.val, verify_token) THEN Err(<<>>)
        ELSE TryIntoCryptKey(shared_secret.val)

\* compute_server_hash: SHA-1 over the empty server id, the shared secret
\* and the cached DER key (the digest is kept symbolic).
compute_server_hash(shared_secret, der) ==
    [server_id |-> "", shared_secret |-> shared_secret, public_key |-> der.der]

\* AuthenticateResult keeping the name the client sent.
AuthenticateResultClientName(username, outcome) ==
    IF ~outcome.joined THEN Err(NoProfile)
    ELSE IF ~outcome.body.json THEN Err(NoProfile)
    ELSE Ok([id |-> outcome.body.id, name |-> username, properties |-> <<>>])

\* authenticate: what `.await??` and serde_json::from_reader yield for the
\* outcome of the blocking task.  The status of the response is not read.
AuthenticateResult(username, outcome) ==
    IF ~outcome.joined THEN Err(NoProfile)
    ELSE IF ~outcome.body.json THEN Err(NoProfile)
    ELSE Ok([id |-> outcome.body.id, name |-> outcome.body.name, properties |-> <<>>])

\* finish_login: the LoginSuccess packet
LoginSuccessOf(response) ==
    [type |-> "LoginSuccess", uuid |-> response.id, username |-> response.name]

\* finish_login: the NewPlayer handed to the server
NewPlayerOf(response) == [username |-> response.name, uuid |-> response.id]

----------------------------------------------------------------------------
(* Initial state: the server is configured, no task has run yet *)

\* No connection task has been polled yet.
NoTasks ==
    /\ rsa_key = NoKey
    /\ rsa_key_encoded = NoDer
    /\ pc = [c \in Conns |-> "start"]
    /\ loc = [c \in Conns |-> NoLocals]
    /\ codec = [c \in Conns |-> CodecPlain]
    /\ trace = [c \in Conns |-> <<>>]
    /\ result = [c \in Conns |-> NoResult]
    /\ io = [c \in Conns |-> {}]

\* No conversion of player.rs and no hexdigest() is under way.
NoCall == [fn |-> "none"]

Init ==
    /\ online_mode \in BOOLEAN
    /\ max_players \in MaxPlayersValues
    /\ player_count \in 0..MaxOnline
    /\ NoTasks
    /\ player = NoCall
    /\ digest = NoCall

----------------------------------------------------------------------------
(* Steps of a task *)

ReadAwaits == {"r_handshake", "r_request", "r_ping", "r_login", "r_encresp"}
WriteAwaits == {"w_response", "w_pong", "w_encreq", "w_success"}

\* The operation on the connection that the await `label` waits for:
\* worker.read, worker.write, or none (the start, the blocking task of
\* authenticate, the end).
IoOf(label) ==
    IF label \in ReadAwaits THEN {[op |-> "read", at |-> label]}
    ELSE IF label \in WriteAwaits THEN {[op |-> "write", at |-> label]}
    ELSE {}

\* handle() returns r: the pending await has completed.
Return(c, r, tr) ==
    /\ pc' = [pc EXCEPT ![c] = "done"]
    /\ result' = [result EXCEPT ![c] = r]
    /\ trace' = [trace EXCEPT ![c] = tr]
    /\ io' = [io EXCEPT ![c] = @ \ IoOf(pc[c])]

\* A task that hands its next operation to the connection without
\* awaiting the pending one (the future is spawned, not awaited).
AwaitDetached(c, label, tr) ==
    /\ pc' = [pc EXCEPT ![c] = label]
    /\ trace' = [trace EXCEPT ![c] = tr]
    /\ io' = [io EXCEPT ![c] = @ \cup IoOf(label)]
    /\ UNCHANGED result

\* The pending await has completed and the task suspends at the await
\* `label`, whose operation is now in flight.
Await(c, label, tr) ==
    /\ pc' = [pc EXCEPT ![c] = label]
    /\ trace' = [trace EXCEPT ![c] = tr]
    /\ io' = [io EXCEPT ![c] = (@ \ IoOf(pc[c])) \cup IoOf(label)]
    /\ UNCHANGED result

\* worker.write(pkt) is called: the frame is encoded and in flight.
SetOut(c, pkt) == [loc EXCEPT ![c].out = Frame(codec[c], pkt)]

Server == <<online_mode, max_players, player_count>>
Keys == <<rsa_key, rsa_key_encoded>>
Pure == <<player, digest>>

\* handle is called; the read of the handshake is issued.
Start(c) ==
    /\ pc[c] = "start"
    /\ Await(c, "r_handshake", trace[c])
    /\ UNCHANGED <<Pure, Server, Keys, loc, codec>>

\* handle: worker.read::<ClientHandshakePacket>().await? completes.
HandshakeRead(c) ==
    /\ pc[c] = "r_handshake"
    /\ \E in \in ReadOutcomes(HandshakePackets) :
       IF ~in.ok
       THEN Return(c, Failed, Append(trace[c], Event("read_err", NoPacket)))
       ELSE Await(c, HandleDispatch(in.pkt.next_state),
                  Append(trace[c], Event("read", in.pkt)))
    /\ UNCHANGED <<Pure, Server, Keys, loc, codec>>

\* RequestRead dropping the result of the read (`let _ = ...await;`): the
\* Response is built and sent whether or not a Request arrived.
RequestReadIgnoringError(c) ==
    /\ pc[c] = "r_request"
    /\ \E in \in ReadOutcomes({RequestPacket}) :
       /\ Await(c, "w_response",
                Append(trace[c], Event(IF in.ok THEN "read" ELSE "read_err", in.pkt)))
       /\ loc' = SetOut(c, StatusResponse(max_players, player_count))
    /\ UNCHANGED <<Pure, Server, Keys, codec>>

\* handle_status: worker.read::<Request>().await? completes; the payload
\* is built and serialised, the write of the Response is issued.
RequestRead(c) ==
    /\ pc[c] = "r_request"
    /\ \E in \in ReadOutcomes({RequestPacket}), serialized \in BOOLEAN :
       IF ~in.ok
       THEN /\ Return(c, Failed, Append(trace[c], Event("read_err", NoPacket)))
            /\ UNCHANGED loc
       ELSE IF ~serialized
       THEN /\ Return(c, Failed,
                      trace[c] \o <<Event("read", in.pkt), Event("serialize_err", NoPacket)>>)
            /\ UNCHANGED loc
       ELSE /\ Await(c, "w_response", Append(trace[c], Event("read", in.pkt)))
            /\ loc' = SetOut(c, StatusResponse(max_players, player_count))
    /\ UNCHANGED <<Pure, Server, Keys, codec>>

\* handle_status: worker.write(Response).await? completes; the read of
\* the Ping is issued.
ResponseWritten(c) ==
    /\ pc[c] = "w_response"
    /\ \E ok \in BOOLEAN :
       IF ok
       THEN Await(c, "r_ping", Append(trace[c], Event("write", loc[c].out)))
       ELSE Return(c, Failed, Append(trace[c], Event("write_err", loc[c].out)))
    /\ UNCHANGED <<Pure, Server, Keys, loc, codec>>

\* PingRead with `?` on the read: a failed read of the Ping is an error.
PingReadStrict(c) ==
    /\ pc[c] = "r_ping"
    /\ \E in \in ReadOutcomes(PingPackets) :
       IF in.ok
       THEN /\ Await(c, "w_pong", Append(trace[c], Event("read", in.pkt)))
            /\ loc' = SetOut(c, PongOf(in.pkt))
       ELSE /\ Return(c, Failed, Append(trace[c], Event("read_err", NoPacket)))
            /\ UNCHANGED loc
    /\ UNCHANGED <<Pure, Server, Keys, codec>>

\* handle_status: `if let Ok(ping) = worker.read::<Ping>().await`.
PingRead(c) ==
    /\ pc[c] = "r_ping"
    /\ \E in \in ReadOutcomes(PingPackets) :
       IF in.ok
       THEN /\ Await(c, "w_pong", Append(trace[c], Event("read", in.pkt)))
            /\ loc' = SetOut(c, PongOf(in.pkt))
       ELSE /\ Return(c, Disconnect, Append(trace[c], Event("read_err", NoPacket)))
            /\ UNCHANGED loc
    /\ UNCHANGED <<Pure, Server, Keys, codec>>

\* handle_status: worker.write(Pong).await? completes.
PongWritten(c) ==
    /\ pc[c] = "w_pong"
    /\ \E ok \in BOOLEAN :
       IF ok
       THEN Return(c, Disconnect, Append(trace[c], Event("write", loc[c].out)))
       ELSE Return(c, Failed, Append(trace[c], Event("write_err", loc[c].out)))
    /\ UNCHANGED <<Pure, Server, Keys, loc, codec>>

\* handle_login, online: do_encryption_handshake up to its first await.
\* The verify token is drawn, RSA_KEY_ENCODED is forced (which forces
\* RSA_KEY when it is computed), the write of the request is issued.
BeginEncryptionHandshake(c, name, token, k, tr) ==
    LET key == IF rsa_key_encoded.init THEN rsa_key ELSE ForceRsaKey(rsa_key, k)
        der == ForceRsaKeyEncoded(rsa_key_encoded, key)
    IN  /\ rsa_key' = key
        /\ rsa_key_encoded' = der
        /\ loc' = [loc EXCEPT ![c].name = name,
                              ![c].verify_token = token,
                              ![c].out = Frame(codec[c], EncryptionRequestOf(der, token))]
        /\ Await(c, "w_encreq", tr)

\* finish_login up to its await: the write of LoginSuccess is issued.
FinishLogin(c, name, response, tr) ==
    /\ loc' = [loc EXCEPT ![c].name = name,
                          ![c].response = response,
                          ![c].out = Frame(codec[c], LoginSuccessOf(response))]
    /\ Await(c, "w_success", tr)

\* handle_login: worker.read::<ClientLoginPacket>().await? completes.
LoginRead(c) ==
    /\ pc[c] = "r_login"
    /\ \E in \in ReadOutcomes(ClientLoginPackets) :
       IF ~in.ok
       THEN /\ Return(c, Failed, Append(trace[c], Event("read_err", NoPacket)))
            /\ UNCHANGED <<Keys, loc>>
       ELSE IF in.pkt.type # "LoginStart"
       THEN /\ Return(c, Failed, Append(trace[c], Event("read", in.pkt)))
            /\ UNCHANGED <<Keys, loc>>
       ELSE IF online_mode
       THEN \E token \in Tokens, k \in RsaKeys :
               BeginEncryptionHandshake(c, in.pkt.name, token, k,
                                        Append(trace[c], Event("read", in.pkt)))
       ELSE \E uuid \in Uuids :
            LET profile == compute_offline_mode_profile(in.pkt.name, uuid)
            IN  /\ FinishLogin(c, in.pkt.name, profile,
                               trace[c] \o <<Event("read", in.pkt),
                                             Event("new_uuid", uuid)>>)
                /\ UNCHANGED Keys
    /\ UNCHANGED <<Pure, Server, codec>>

\* do_encryption_handshake: worker.write(EncryptionRequest).await?
\* completes; the read of the response is issued.
EncryptionRequestWritten(c) ==
    /\ pc[c] = "w_encreq"
    /\ \E ok \in BOOLEAN :
       IF ok
       THEN Await(c, "r_encresp", Append(trace[c], Event("write", loc[c].out)))
       ELSE Return(c, Failed, Append(trace[c], Event("write_err", loc[c].out)))
    /\ UNCHANGED <<Pure, Server, Keys, loc, codec>>

\* EnableEncryption going on to finish_login with the name the client sent,
\* without the session lookup.
EnableEncryptionNoAuth(c, shared_secret, tr) ==
    LET response == compute_offline_mode_profile(loc[c].name, 0)
        cd == CodecEnableEncryption(codec[c], shared_secret)
    IN  /\ codec' = [codec EXCEPT ![c] = cd]
        /\ loc' = [loc EXCEPT ![c].shared_secret = shared_secret,
                              ![c].response = response,
                              ![c].out = Frame(cd, LoginSuccessOf(response))]
        /\ Await(c, "w_success", Append(tr, Event("encrypt", shared_secret)))

\* enable_encryption, once do_encryption_handshake has returned the shared
\* secret: the key is installed on the codec, the server hash is computed
\* and the blocking session lookup is spawned and awaited.
EnableEncryption(c, shared_secret, tr) ==
    /\ codec' = [codec EXCEPT ![c] = CodecEnableEncryption(codec[c], shared_secret)]
    /\ loc' = [loc EXCEPT ![c].shared_secret = shared_secret]
    /\ Await(c, "auth",
             tr \o <<Event("encrypt", shared_secret),
                     Event("auth_call",
                           [username |-> loc[c].name,
                            server_hash |-> compute_server_hash(shared_secret,
                                                                rsa_key_encoded)])>>)

\* do_encryption_handshake: worker.read::<ClientLoginPacket>().await?
\* completes (RSA_KEY was forced when the request was built).
EncryptionResponseRead(c) ==
    /\ pc[c] = "r_encresp"
    /\ \E in \in ReadOutcomes(ClientLoginPackets) :
       IF ~in.ok
       THEN /\ Return(c, Failed, Append(trace[c], Event("read_err", NoPacket)))
            /\ UNCHANGED <<loc, codec>>
       ELSE IF in.pkt.type # "EncryptionResponse"
       THEN /\ Return(c, Failed, Append(trace[c], Event("read", in.pkt)))
            /\ UNCHANGED <<loc, codec>>
       ELSE LET key == DecryptResponse(rsa_key, loc[c].verify_token, in.pkt)
            IN  IF ~key.ok
                THEN /\ Return(c, Failed,
                               trace[c] \o <<Event("read", in.pkt),
                                             Event("handshake_err", NoPacket)>>)
                     /\ UNCHANGED <<loc, codec>>
                ELSE EnableEncryption(c, key.val,
                                      trace[c] \o <<Event("read", in.pkt),
                                                    Event("handshake_ok", key.val)>>)
    /\ UNCHANGED <<Pure, Server, Keys>>

\* AuthReturned counting the player as online as soon as the lookup gave
\* a profile.
AuthReturnedCounting(c) ==
    /\ pc[c] = "auth"
    /\ \E outcome \in AuthOutcomes :
       LET response == AuthenticateResult(loc[c].name, outcome)
       IN  IF response.ok
           THEN /\ FinishLogin(c, loc[c].name, response.val,
                               Append(trace[c], Event("auth_return", outcome)))
                /\ player_count' = IF player_count < MaxOnline
                                   THEN player_count + 1
                                   ELSE player_count
           ELSE /\ Return(c, Failed, Append(trace[c], Event("auth_return", outcome)))
                /\ UNCHANGED <<loc, player_count>>
    /\ UNCHANGED <<Pure, online_mode, max_players, Keys, codec>>

\* authenticate: the blocking task resolves with `outcome`.
AuthReturned(c) ==
    /\ pc[c] = "auth"
    /\ \E outcome \in AuthOutcomes :
       LET response == AuthenticateResult(loc[c].name, outcome)
       IN  IF response.ok
           THEN FinishLogin(c, loc[c].name, response.val,
                            Append(trace[c], Event("auth_return", outcome)))
           ELSE /\ Return(c, Failed, Append(trace[c], Event("auth_return", outcome)))
                /\ UNCHANGED loc
    /\ UNCHANGED <<Pure, Server, Keys, codec>>

\* LoginSuccessWritten without the `?` on the write: the player is returned
\* whether or not the frame went out.
LoginSuccessWrittenUnchecked(c) ==
    /\ pc[c] = "w_success"
    /\ \E ok \in BOOLEAN :
       Return(c, Join(NewPlayerOf(loc[c].response)),
              Append(trace[c], Event(IF ok THEN "write" ELSE "write_err", loc[c].out)))
    /\ UNCHANGED <<Pure, Server, Keys, loc, codec>>

\* finish_login: worker.write(LoginSuccess).await? completes.
LoginSuccessWritten(c) ==
    /\ pc[c] = "w_success"
    /\ \E ok \in BOOLEAN :
       IF ok
       THEN Return(c, Join(NewPlayerOf(loc[c].response)),
                   Append(trace[c], Event("write", loc[c].out)))
       ELSE Return(c, Failed, Append(trace[c], Event("write_err", loc[c].out)))
    /\ UNCHANGED <<Pure, Server, Keys, loc, codec>>

\* The surrounding server promotes or removes a player.
PlayerCountChange ==
    /\ \E n \in 0..MaxOnline :
       /\ n # player_count
       /\ player_count' = n
    /\ UNCHANGED <<online_mode, max_players, Keys, pc, loc, codec, trace, result>>
    /\ UNCHANGED <<io, Pure>>

----------------------------------------------------------------------------
(* One connection task and the surrounding server.  Tasks share nothing  *)
(* but player_count and the two lazy statics, so Spec follows the task of *)
(* one connection from the call of handle() to its return, while the      *)
(* surrounding server moves the counter.                                  *)

Next ==
    \/ \E c \in Solo : Start(c)
    \/ \E c \in Solo : HandshakeRead(c)
    \/ \E c \in Solo : RequestRead(c)
    \/ \E c \in Solo : ResponseWritten(c)
    \/ \E c \in Solo : PingRead(c)
    \/ \E c \in Solo : PongWritten(c)
    \/ \E c \in Solo : LoginRead(c)
    \/ \E c \in Solo : EncryptionRequestWritten(c)
    \/ \E c \in Solo : EncryptionResponseRead(c)
    \/ \E c \in Solo : AuthReturned(c)
    \/ \E c \in Solo : LoginSuccessWritten(c)
    \/ PlayerCountChange

Spec == Init /\ [][Next]_vars

----------------------------------------------------------------------------
(* core/anvil/src/player.rs: InventorySlot and its conversions *)

\* feather_inventory::player_constants (network slot indices)
SLOT_ARMOR_MIN == 5
SLOT_ARMOR_MAX == 8
SLOT_INVENTORY_OFFSET == 9
INVENTORY_SIZE == 27
SLOT_HOTBAR_OFFSET == 36
HOTBAR_SIZE == 9
SLOT_OFFHAND == 45

\* Largest network index given to from_network_index, and number of
\* conversions applied in a row
MaxNetwork == 47
MaxCalls == 2

I8 == -128..127

\* `as i8`, `as u8`: the low eight bits
AsI8(n) == LET m == n % 256 IN IF m > 127 THEN m - 256 ELSE m
AsU8(n) == n % 256

\* `as usize` of an i8: sign extension (a negative value lands at the top
\* of the range of usize; the model keeps 31 bits of it)
AsUsize(n) == IF n >= 0 THEN n ELSE (2147483647 + n) + 1

None == [some |-> FALSE]
Some(v) == [some |-> TRUE, val |-> v]
UnwrapOr(opt, default) == IF opt.some THEN opt.val ELSE default

\* feather_items::Item and its identifiers
Items == {"Air", "Stone", "Feather"}
Identifier(item) ==
    CASE item = "Air" -> "minecraft:air"
      [] item = "Stone" -> "minecraft:stone"
      [] item = "Feather" -> "minecraft:feather"
Identifiers == {Identifier(item) : item \in Items} \cup {"invalid:identifier", ""}
from_identifier(id) ==
    IF \E item \in Items : Identifier(item) = id
    THEN Some(CHOOSE item \in Items : Identifier(item) = id)
    ELSE None

\* struct InventorySlot { count: i8, slot: i8, item: String }, ItemStack
InventorySlot(count, slot, item) == [count |-> count, slot |-> slot, item |-> item]
ItemStack(ty, amount) == [ty |-> ty, amount |-> amount]
Amounts == {0, 1, 64, 200}
ItemStacks == {ItemStack(ty, amount) : ty \in Items, amount \in Amounts}

\* to_stack with the amount clamped at zero instead of cast.
to_stack_clamped(self) ==
    ItemStack(UnwrapOr(from_identifier(self.item), "Air"),
              IF self.count < 0 THEN 0 ELSE self.count)

\* InventorySlot::to_stack
to_stack(self) ==
    ItemStack(UnwrapOr(from_identifier(self.item), "Air"), AsU8(self.count))

\* from_network_index whose test of the main inventory has no lower end.
from_network_index_no_lower(network, stack) ==
    LET slot ==
          IF SLOT_HOTBAR_OFFSET <= network /\ network < SLOT_HOTBAR_OFFSET + HOTBAR_SIZE
          THEN Some(AsI8(network - SLOT_HOTBAR_OFFSET))
          ELSE IF network = SLOT_OFFHAND
          THEN Some(-106)
          ELSE IF SLOT_ARMOR_MIN <= network /\ network <= SLOT_ARMOR_MAX
          THEN Some(AsI8((SLOT_ARMOR_MAX - network) + 100))
          ELSE IF network < SLOT_INVENTORY_OFFSET + INVENTORY_SIZE
          THEN Some(AsI8(network))
          ELSE None
    IN  IF slot.some
        THEN Some(InventorySlot(AsI8(stack.amount), slot.val, Identifier(stack.ty)))
        ELSE None

\* InventorySlot::from_network_index
from_network_index(network, stack) ==
    LET slot ==
          IF SLOT_HOTBAR_OFFSET <= network /\ network < SLOT_HOTBAR_OFFSET + HOTBAR_SIZE
          THEN Some(AsI8(network - SLOT_HOTBAR_OFFSET))
          ELSE IF network = SLOT_OFFHAND
          THEN Some(-106)
          ELSE IF SLOT_ARMOR_MIN <= network /\ network <= SLOT_ARMOR_MAX
          THEN Some(AsI8((SLOT_ARMOR_MAX - network) + 100))
          ELSE IF /\ SLOT_INVENTORY_OFFSET <= network
                  /\ network < SLOT_INVENTORY_OFFSET + INVENTORY_SIZE
          THEN Some(AsI8(network))
          ELSE None
    IN  IF slot.some
        THEN Some(InventorySlot(AsI8(stack.amount), slot.val, Identifier(stack.ty)))
        ELSE None

\* convert_index counting the armor slots upwards from the head.
convert_index_armor_up(self) ==
    IF 0 <= self.slot /\ self.slot <= 8
    THEN Some(SLOT_HOTBAR_OFFSET + AsUsize(self.slot))
    ELSE IF self.slot = -106
    THEN Some(SLOT_OFFHAND)
    ELSE IF 100 <= self.slot /\ self.slot <= 103
    THEN Some(AsUsize(AsI8(self.slot - 95)))
    ELSE IF 9 <= self.slot /\ self.slot <= 35
    THEN Some(AsUsize(self.slot))
    ELSE None

\* convert_index whose test of the main inventory has no lower end.
convert_index_no_lower(self) ==
    IF 0 <= self.slot /\ self.slot <= 8
    THEN Some(SLOT_HOTBAR_OFFSET + AsUsize(self.slot))
    ELSE IF self.slot = -106
    THEN Some(SLOT_OFFHAND)
    ELSE IF 100 <= self.slot /\ self.slot <= 103
    THEN Some(AsUsize(AsI8(108 - self.slot)))
    ELSE IF self.slot <= 35
    THEN Some(AsUsize(self.slot))
    ELSE None

\* InventorySlot::convert_index
convert_index(self) ==
    IF 0 <= self.slot /\ self.slot <= 8
    THEN Some(SLOT_HOTBAR_OFFSET + AsUsize(self.slot))
    ELSE IF self.slot = -106
    THEN Some(SLOT_OFFHAND)
    ELSE IF 100 <= self.slot /\ self.slot <= 103
    THEN Some(AsUsize(AsI8(108 - self.slot)))
    ELSE IF 9 <= self.slot /\ self.slot <= 35
    THEN Some(AsUsize(self.slot))
    ELSE None

\* The slots read from disk: every slot number with some counts, and every
\* count in some slot.
DiskSlots ==
    {InventorySlot(count, slot, item) :
        count \in {1, 64}, slot \in I8, item \in Identifiers}
    \cup {InventorySlot(count, slot, item) :
        count \in I8, slot \in {0, 9}, item \in Identifiers}

\* player: `from` is what the conversions started from, `self` the current
\* Option<InventorySlot>, `network` the current Option<usize>, `given` the
\* last stack handed to from_network_index, `stack` the result of
\* to_stack, `calls` the functions applied so far.
PlayerInputs ==
    {[fn |-> "disk", from |-> s, self |-> Some(s), network |-> None,
      given |-> None, stack |-> None, calls |-> <<>>] : s \in DiskSlots}
    \cup
    {[fn |-> "network", from |-> n, self |-> None, network |-> Some(n),
      given |-> None, stack |-> None, calls |-> <<>>] : n \in 0..MaxNetwork}

Called(f) == \E i \in 1..Len(player.calls) : player.calls[i] = f
LastCall == IF player.calls = <<>> THEN "none" ELSE player.calls[Len(player.calls)]

InitPlayer ==
    /\ online_mode = FALSE
    /\ max_players = 20
    /\ player_count = 0
    /\ NoTasks
    /\ player \in PlayerInputs
    /\ digest = NoCall

Conn == <<Server, Keys, pc, loc, codec, trace, result, io>>

ConvertIndex ==
    /\ player.fn # "none"
    /\ player.self.some
    /\ LastCall \in {"none", "from_network_index"}
    /\ Len(player.calls) < MaxCalls
    /\ player' = [player EXCEPT !.network = convert_index(player.self.val),
                                !.calls = Append(@, "convert_index")]
    /\ UNCHANGED <<Conn, digest>>

FromNetworkIndex ==
    /\ player.fn # "none"
    /\ player.network.some
    /\ LastCall \in {"none", "convert_index"}
    /\ Len(player.calls) < MaxCalls
    /\ \E stack \in ItemStacks :
          player' = [player EXCEPT !.self = from_network_index(player.network.val, stack),
                                   !.given = Some(stack),
                                   !.calls = Append(@, "from_network_index")]
    /\ UNCHANGED <<Conn, digest>>

ToStack ==
    /\ player.fn # "none"
    /\ player.self.some
    /\ player.calls = <<>>
    /\ player' = [player EXCEPT !.stack = Some(to_stack(player.self.val)),
                                !.calls = Append(@, "to_stack")]
    /\ UNCHANGED <<Conn, digest>>

NextPlayer ==
    \/ ConvertIndex
    \/ FromNetworkIndex
    \/ ToStack

SpecPlayer == InitPlayer /\ [][NextPlayer]_vars

----------------------------------------------------------------------------
(* initial_handling.rs: hexdigest *)

\* Longest byte string given to hexdigest (a SHA-1 digest has 20 bytes)
MaxDigestLen == 2

DigestBytes == {0, 1, 9, 10, 15, 16, 127, 128, 129, 171, 240, 255}

RECURSIVE SeqsUpTo(_, _)
SeqsUpTo(S, n) ==
    IF n = 0 THEN {<<>>}
    ELSE LET shorter == SeqsUpTo(S, n - 1)
         IN  shorter \cup {Append(q, x) : q \in shorter, x \in S}

DigestInputs == SeqsUpTo(DigestBytes, MaxDigestLen)

RECURSIVE Pow256(_)
Pow256(n) == IF n = 0 THEN 1 ELSE 256 * Pow256(n - 1)

\* The bytes as an unsigned big-endian number
RECURSIVE UnsignedBe(_)
UnsignedBe(bytes) ==
    IF bytes = <<>> THEN 0
    ELSE 256 * UnsignedBe(SubSeq(bytes, 1, Len(bytes) - 1)) + bytes[Len(bytes)]

\* BigInt::from_signed_bytes_be: two's complement, big-endian; the empty
\* string is zero
from_signed_bytes_be(bytes) ==
    IF bytes = <<>> THEN 0
    ELSE IF bytes[1] >= 128
    THEN UnsignedBe(bytes) - Pow256(Len(bytes))
    ELSE UnsignedBe(bytes)

HexDigits == <<"0", "1", "2", "3", "4", "5", "6", "7",
               "8", "9", "a", "b", "c", "d", "e", "f">>

\* {:x} of a magnitude: lowercase digits, no leading zero, "0" for zero
RECURSIVE LowerHex(_)
LowerHex(n) ==
    IF n < 16 THEN <<HexDigits[n + 1]>>
    ELSE Append(LowerHex(n \div 16), HexDigits[(n % 16) + 1])

\* format!("{:x}", bigint): the sign, then the magnitude
FormatLowerHex(bigint) ==
    IF bigint < 0 THEN <<"-">> \o LowerHex(0 - bigint) ELSE LowerHex(bigint)

\* hexdigest reading the bytes as an unsigned number.
hexdigest_unsigned(bytes) == LowerHex(UnsignedBe(bytes))

\* fn hexdigest(bytes: &[u8]) -> String
hexdigest(bytes) == FormatLowerHex(from_signed_bytes_be(bytes))

InitDigest ==
    /\ online_mode = FALSE
    /\ max_players = 20
    /\ player_count = 0
    /\ NoTasks
    /\ player = NoCall
    /\ digest \in {[fn |-> "hexdigest", bytes |-> b, out |-> None] : b \in DigestInputs}

Hexdigest ==
    /\ digest.fn = "hexdigest"
    /\ ~digest.out.some
    /\ digest' = [digest EXCEPT !.out = Some(hexdigest(digest.bytes))]
    /\ UNCHANGED <<Conn, player>>

NextDigest == Hexdigest

SpecDigest == InitDigest /\ [][NextDigest]_vars

----------------------------------------------------------------------------
(* What the trace of a connection tells *)

Indices(c) == 1..Len(trace[c])

\* Positions of the completed reads of a packet of the given type.
ReadsOf(c, type) ==
    {i \in Indices(c) : trace[c][i].ev = "read" /\ trace[c][i].arg.type = type}

\* Positions of the writes of a packet of the given type that succeeded.
WritesOf(c, type) ==
    {i \in Indices(c) : trace[c][i].ev = "write" /\ trace[c][i].arg.pkt.type = type}

EventsOf(c, e) == {i \in Indices(c) : trace[c][i].ev = e}

\* Frames handed to worker.write so far: written, failed, or in flight.
IssuedFrames(c) ==
    {trace[c][i].arg : i \in {j \in Indices(c) : trace[c][j].ev \in {"write", "write_err"}}}
    \cup (IF pc[c] \in WriteAwaits THEN {loc[c].out} ELSE {})

Issued(c, type) == {f \in IssuedFrames(c) : f.pkt.type = type}

\* The flow the handshake of the connection selected.
InFlow(c, next_state) ==
    \E i \in ReadsOf(c, "Handshake") : trace[c][i].arg.next_state = next_state

\* A step of the login flow failed: a read or a write failed, the packet
\* read was not the one expected, a field of the EncryptionResponse did not
\* decrypt, the verify token differed, or the session lookup gave no profile.
ReadFailed(c) == EventsOf(c, "read_err") # {}
WriteFailed(c) == EventsOf(c, "write_err") # {}

DecryptFailed(c) ==
    \E i \in ReadsOf(c, "EncryptionResponse") :
        \/ ~Decrypt(rsa_key, trace[c][i].arg.shared_secret).ok
        \/ ~Decrypt(rsa_key, trace[c][i].arg.verify_token).ok

\* The verify token of the response decrypts to bytes other than the token
\* of the request that was sent.
TokenMismatch(c) ==
    \E i \in ReadsOf(c, "EncryptionResponse"), j \in WritesOf(c, "EncryptionRequest") :
        /\ Decrypt(rsa_key, trace[c][i].arg.verify_token).ok
        /\ Decrypt(rsa_key, trace[c][i].arg.verify_token).val
             # trace[c][j].arg.pkt.verify_token

AuthFailed(c) ==
    \E i \in EventsOf(c, "auth_return") :
        ~trace[c][i].arg.joined \/ ~trace[c][i].arg.body.json

\* The read that follows the handshake of a login, or the one that
\* follows the EncryptionRequest, gave a packet of another kind.
UnexpectedPacket(c) ==
    \/ /\ InFlow(c, "Login")
       /\ Len(trace[c]) >= 2
       /\ trace[c][2].ev = "read"
       /\ trace[c][2].arg.type # "LoginStart"
    \/ \E j \in WritesOf(c, "EncryptionRequest") :
          /\ Len(trace[c]) > j
          /\ trace[c][j + 1].ev = "read"
          /\ trace[c][j + 1].arg.type # "EncryptionResponse"

----------------------------------------------------------------------------
(* C1 *)

----------------------------------------------------------------------------
(* C2 *)

\* C2: in online mode, when the verify token of the EncryptionResponse
\* decrypts to bytes that differ from the 16-byte token of the
\* EncryptionRequest, in a byte or in length, the login has failed with an
\* error: no LoginSuccess was handed to the connection, the codec has no
\* encryption installed, the session service was not called, no Join.
C2_TokenMismatchFatal ==
    \A c \in Conns :
        TokenMismatch(c) =>
            /\ pc[c] = "done"
            /\ result[c] = Failed
            /\ Issued(c, "LoginSuccess") = {}
            /\ ~codec[c].encrypted
            /\ EventsOf(c, "encrypt") = {}
            /\ EventsOf(c, "auth_call") = {}

\* A response with a well-formed 16-byte shared secret and a verify token
\* that differs from the one sent in exactly one byte.
C2_Witness ==
    \E c \in Conns :
        \E i \in ReadsOf(c, "EncryptionResponse"), j \in WritesOf(c, "EncryptionRequest") :
            LET tok == Decrypt(rsa_key, trace[c][i].arg.verify_token)
                sec == Decrypt(rsa_key, trace[c][i].arg.shared_secret)
                sent == trace[c][j].arg.pkt.verify_token
            IN  /\ online_mode
                /\ sec.ok /\ Len(sec.val) = CryptKeyLen
                /\ tok.ok /\ Len(tok.val) = TokenLen
                /\ Cardinality({n \in 1..TokenLen : tok.val[n] # sent[n]}) = 1

----------------------------------------------------------------------------
(* C3 *)

EventType(e) ==
    IF e.ev = "read" THEN e.arg.type
    ELSE IF e.ev \in {"write", "write_err"} THEN e.arg.pkt.type
    ELSE ""

Tag(e) == <<e.ev, EventType(e)>>

\* The steps of an online login up to the return of the session lookup.
OnlineLoginSteps ==
    << <<"read", "Handshake">>, <<"read", "LoginStart">>,
       <<"write", "EncryptionRequest">>, <<"read", "EncryptionResponse">>,
       <<"handshake_ok", "">>, <<"encrypt", "">>, <<"auth_call", "">>,
       <<"auth_return", "">> >>

\* C3: in online mode, whenever LoginSuccess has been handed to the
\* connection, the steps before it were, in this order and nothing else:
\* LoginStart read, EncryptionRequest written, one EncryptionResponse read,
\* its verify token equal to the one sent, the decrypted shared secret
\* installed on the codec, the session lookup called and returned with a
\* profile.  LoginSuccess is the next step and the last one.
C3_LoginOrder ==
    \A c \in Conns :
        (online_mode /\ Issued(c, "LoginSuccess") # {}) =>
            LET t == trace[c] IN
            /\ Len(t) >= Len(OnlineLoginSteps)
            /\ \A i \in 1..Len(OnlineLoginSteps) : Tag(t[i]) = OnlineLoginSteps[i]
            /\ t[1].arg.next_state = "Login"
            /\ Cardinality(ReadsOf(c, "EncryptionResponse")) = 1
            /\ Decrypt(rsa_key, t[4].arg.verify_token) = Ok(t[3].arg.pkt.verify_token)
            /\ Decrypt(rsa_key, t[4].arg.shared_secret) = Ok(t[6].arg)
            /\ codec[c] = [encrypted |-> TRUE, key |-> t[6].arg]
            /\ t[8].arg.joined /\ t[8].arg.body.json
            /\ \/ Len(t) = Len(OnlineLoginSteps) /\ pc[c] = "w_success"
               \/ /\ Len(t) = Len(OnlineLoginSteps) + 1
                  /\ pc[c] = "done"
                  /\ Tag(t[Len(t)]) \in {<<"write", "LoginSuccess">>,
                                         <<"write_err", "LoginSuccess">>}

\* An online login whose LoginSuccess went out.
C3_Witness ==
    \E c \in Conns :
        /\ online_mode
        /\ WritesOf(c, "LoginSuccess") # {}
        /\ Len(trace[c]) = Len(OnlineLoginSteps) + 1

----------------------------------------------------------------------------
(* C4 *)

\* C4: the EncryptionRequest is handed to the connection while the codec
\* has no encryption; in online mode every frame handed to it after the
\* EncryptionResponse was read (LoginSuccess) is encrypted, with the
\* 16-byte key the shared secret of that response decrypts to, which is
\* also the secret the server hash of the session lookup was computed from.
C4_EncryptionAtWrites ==
    \A c \in Conns :
        /\ \A f \in Issued(c, "EncryptionRequest") : ~f.encrypted
        /\ online_mode =>
              \A i \in ReadsOf(c, "EncryptionResponse") :
                  LET secret == Decrypt(rsa_key, trace[c][i].arg.shared_secret)
                      after == {trace[c][j].arg :
                                  j \in {n \in Indices(c) :
                                           n > i /\ trace[c][n].ev \in {"write", "write_err"}}}
                               \cup (IF pc[c] \in WriteAwaits THEN {loc[c].out} ELSE {})
                  IN  \A f \in after :
                          /\ f.encrypted
                          /\ secret.ok
                          /\ f.key = secret.val
                          /\ Len(f.key) = CryptKeyLen
                          /\ \A a \in EventsOf(c, "auth_call") :
                                trace[c][a].arg.server_hash.shared_secret = f.key

\* LoginSuccess went out encrypted under a shared secret that differs from
\* the verify token.
C4_Witness ==
    \E c \in Conns :
        \E i \in WritesOf(c, "LoginSuccess"), j \in WritesOf(c, "EncryptionRequest") :
            /\ online_mode
            /\ trace[c][i].arg.encrypted
            /\ ~trace[c][j].arg.encrypted
            /\ trace[c][i].arg.key # trace[c][j].arg.pkt.verify_token

----------------------------------------------------------------------------
(* C5 *)

\* The shared secret of an EncryptionResponse decrypts to a number of bytes
\* other than 16.
BadSecretLength(c) ==
    \E i \in ReadsOf(c, "EncryptionResponse") :
        /\ Decrypt(rsa_key, trace[c][i].arg.shared_secret).ok
        /\ Len(Decrypt(rsa_key, trace[c][i].arg.shared_secret).val) # CryptKeyLen

\* C5: in online mode, when the shared secret of the EncryptionResponse
\* decrypts to anything but 16 bytes (shorter, longer, empty), the
\* handshake has failed with an error, also when the verify token matches:
\* no encryption on the codec, no LoginSuccess, no Join.
C5_SecretLengthFatal ==
    \A c \in Conns :
        BadSecretLength(c) =>
            /\ pc[c] = "done"
            /\ result[c] = Failed
            /\ ~codec[c].encrypted
            /\ Issued(c, "LoginSuccess") = {}

\* A response whose verify token matches and whose shared secret is one
\* byte too long.
C5_Witness ==
    \E c \in Conns :
        \E i \in ReadsOf(c, "EncryptionResponse"), j \in WritesOf(c, "EncryptionRequest") :
            /\ ~TokenMismatch(c) /\ ~DecryptFailed(c)
            /\ Len(Decrypt(rsa_key, trace[c][i].arg.shared_secret).val) = CryptKeyLen + 1
            /\ pc[c] = "done"

----------------------------------------------------------------------------
(* C6 *)

\* C6: in online mode the session lookup is fatal on every failure: when
\* the blocking task did not complete, when the status of the answer is
\* not 2xx, or when the body does not decode as a profile, handle() has
\* returned an error and no LoginSuccess was handed to the connection; a
\* profile is accepted only from a 2xx answer.
C6_SessionLookupFatal ==
    \A c \in Conns :
        \A i \in EventsOf(c, "auth_return") :
            LET o == trace[c][i].arg IN
            (~o.joined \/ ~Is2xx(o.status) \/ ~o.body.json) =>
                /\ pc[c] = "done"
                /\ result[c] = Failed
                /\ Issued(c, "LoginSuccess") = {}

----------------------------------------------------------------------------
(* C7 *)

\* C7: LoginSuccess and the returned player carry the identity of the
\* profile.  In online mode the username and the uuid are those of the
\* body the session service returned, whatever name LoginStart carried; in
\* offline mode they are the name of LoginStart and the uuid generated for
\* this login.
C7_ProfileIdentity ==
    \A c \in Conns :
        LET Identity(username, uuid) ==
                IF online_mode
                THEN /\ EventsOf(c, "auth_return") # {}
                     /\ \A i \in EventsOf(c, "auth_return") :
                           /\ trace[c][i].arg.body.json
                           /\ username = trace[c][i].arg.body.name
                           /\ uuid = trace[c][i].arg.body.id
                ELSE /\ ReadsOf(c, "LoginStart") # {}
                     /\ EventsOf(c, "new_uuid") # {}
                     /\ \A i \in ReadsOf(c, "LoginStart") : username = trace[c][i].arg.name
                     /\ \A i \in EventsOf(c, "new_uuid") : uuid = trace[c][i].arg
        IN  /\ \A f \in Issued(c, "LoginSuccess") : Identity(f.pkt.username, f.pkt.uuid)
            /\ result[c].kind = "Join" =>
                  Identity(result[c].player.username, result[c].player.uuid)

\* An online login that ended in Join under a name other than the one the
\* client sent.
C7_Witness ==
    \E c \in Conns :
        \E i \in ReadsOf(c, "LoginStart") :
            /\ online_mode
            /\ result[c].kind = "Join"
            /\ result[c].player.username # trace[c][i].arg.name

----------------------------------------------------------------------------
(* C8 *)

\* Number of frames of the given type handed to worker.write so far.
IssuedCount(c, types) ==
    Cardinality({j \in Indices(c) :
                   trace[c][j].ev \in {"write", "write_err"}
                   /\ trace[c][j].arg.pkt.type \in types})
    + (IF pc[c] \in WriteAwaits /\ loc[c].out.pkt.type \in types THEN 1 ELSE 0)

ServerPacketTypes == {"Response", "Pong", "EncryptionRequest", "LoginSuccess"}

\* C8: in offline mode, once LoginStart{name} has been read, the server
\* has handed exactly one frame to the connection, LoginSuccess{uuid,
\* username = name}, unencrypted; when that frame is written the result is
\* Join with that username and uuid, and Join is returned in no other way.
\* No EncryptionRequest is written, the codec never gets encryption, the
\* session service is never called.
C8_OfflineLogin ==
    \A c \in Conns :
        (~online_mode /\ ReadsOf(c, "LoginStart") # {}) =>
            /\ EventsOf(c, "new_uuid") # {}
            /\ IssuedCount(c, ServerPacketTypes) = 1
            /\ \A i \in ReadsOf(c, "LoginStart"), u \in EventsOf(c, "new_uuid") :
                  /\ IssuedFrames(c) =
                        {[pkt |-> [type |-> "LoginSuccess", uuid |-> trace[c][u].arg,
                                   username |-> trace[c][i].arg.name],
                          encrypted |-> FALSE, key |-> <<>>]}
                  /\ WritesOf(c, "LoginSuccess") # {} =>
                        result[c] = Join([username |-> trace[c][i].arg.name,
                                          uuid |-> trace[c][u].arg])
            /\ result[c].kind = "Join" => WritesOf(c, "LoginSuccess") # {}
            /\ ~codec[c].encrypted
            /\ EventsOf(c, "encrypt") = {}
            /\ EventsOf(c, "auth_call") = {}

\* An offline login that ended in Join.
C8_Witness ==
    \E c \in Conns :
        /\ ~online_mode
        /\ result[c].kind = "Join"
        /\ result[c].player.username = "alice"
        /\ Len(trace[c]) = 4

----------------------------------------------------------------------------
(* C9 *)

\* The read issued after the Response was written failed.
PingReadFailed(c) ==
    \E j \in WritesOf(c, "Response") :
        Len(trace[c]) > j /\ trace[c][j + 1].ev = "read_err"

\* C9: a connection whose handshake declared next_state = Status never
\* returns Join and never gets a login packet (EncryptionRequest,
\* LoginSuccess); once the Response is written, after the Pong is sent, or
\* after the read of the Ping failed, the result is Disconnect.
C9_StatusTerminal ==
    \A c \in Conns :
        InFlow(c, "Status") =>
            /\ result[c].kind # "Join"
            /\ Issued(c, "EncryptionRequest") = {}
            /\ Issued(c, "LoginSuccess") = {}
            /\ pc[c] \notin {"r_login", "w_encreq", "r_encresp", "auth", "w_success"}
            /\ (WritesOf(c, "Response") # {}
                  /\ (WritesOf(c, "Pong") # {} \/ PingReadFailed(c))) =>
                  (pc[c] = "done" /\ result[c] = Disconnect)

\* A status connection the client dropped after the Response.
C9_Witness ==
    \E c \in Conns :
        /\ InFlow(c, "Status")
        /\ PingReadFailed(c)
        /\ result[c] = Disconnect

----------------------------------------------------------------------------
(* C10 *)

\* In every state of the status flow: a Response was handed to the
\* connection only after a Request was read, with protocol 751 and the
\* configured max_players; a Pong only after a Ping was read, once at most,
\* with the payload of that Ping.
C10_StatusFrames ==
    \A c \in Conns :
        /\ IssuedCount(c, {"Pong"}) <= 1
        /\ IssuedCount(c, {"Response"}) <= 1
        /\ \A f \in Issued(c, "Response") :
              /\ ReadsOf(c, "Request") # {}
              /\ f.pkt.protocol = 751
              /\ f.pkt.max = max_players
        /\ \A f \in Issued(c, "Pong") :
              /\ Cardinality(ReadsOf(c, "Ping")) = 1
              /\ \A i \in ReadsOf(c, "Ping") :
                    /\ f.pkt.payload = trace[c][i].arg.payload
                    /\ Len(f.pkt.payload) = 8
                    /\ WritesOf(c, "Response") # {}
                    /\ \A j \in WritesOf(c, "Response") : j < i
        /\ \A j \in Indices(c) :
              (trace[c][j].ev \in {"write", "write_err"}
                 /\ trace[c][j].arg.pkt.type \in {"Response", "Pong"}) =>
                  /\ j > 1
                  /\ trace[c][j - 1].ev = "read"
                  /\ trace[c][j - 1].arg.type =
                        (IF trace[c][j].arg.pkt.type = "Response" THEN "Request" ELSE "Ping")

\* The step that builds the Response puts in it the value the counter has
\* at that step.
C10_BuildStep ==
    \A c \in Conns :
        (pc[c] = "r_request" /\ pc'[c] = "w_response") =>
            /\ loc'[c].out.pkt.type = "Response"
            /\ loc'[c].out.pkt.online = player_count
            /\ loc'[c].out.pkt.max = max_players

\* C10: in the status flow the server writes Response only after it has
\* read Request, and a Pong only after it has read a Ping, at most once
\* per connection, with the payload of that Ping (all 64 bits); the
\* Response reports protocol 751, the configured max_players and the value
\* the online-player counter had when the Response was built.
C10_StatusFlow == [] C10_StatusFrames /\ [][C10_BuildStep]_vars

\* A ping answered with the payload 0x1122334455667788, on a connection
\* whose Response reports a count the counter has left since.
C10_Witness ==
    \E c \in Conns :
        \E i \in WritesOf(c, "Pong"), j \in WritesOf(c, "Response") :
            /\ trace[c][i].arg.pkt.payload = <<17, 34, 51, 68, 85, 102, 119, 136>>
            /\ trace[c][j].arg.pkt.online # player_count
            /\ result[c] = Disconnect

----------------------------------------------------------------------------
(* C11 *)

\* Positions of the mandatory reads that gave something unexpected: the
\* handshake read failed; the Request read of the status flow failed; the
\* first read of the login flow failed or gave no LoginStart; the read
\* after the EncryptionRequest failed or gave no EncryptionResponse.
UnexpectedReads(c) ==
    {i \in Indices(c) :
        \/ i = 1 /\ trace[c][i].ev = "read_err"
        \/ /\ i = 2
           /\ InFlow(c, "Status")
           /\ trace[c][i].ev = "read_err"
        \/ /\ i = 2
           /\ InFlow(c, "Login")
           /\ \/ trace[c][i].ev = "read_err"
              \/ trace[c][i].ev = "read" /\ trace[c][i].arg.type # "LoginStart"
        \/ /\ i > 1
           /\ trace[c][i - 1].ev = "write"
           /\ trace[c][i - 1].arg.pkt.type = "EncryptionRequest"
           /\ \/ trace[c][i].ev = "read_err"
              \/ trace[c][i].ev = "read" /\ trace[c][i].arg.type # "EncryptionResponse"}

\* C11: every mandatory read is fatal on anything unexpected.  When the
\* handshake read or the status Request read fails, when the first login
\* packet is not LoginStart, or when the packet read after the
\* EncryptionRequest is not EncryptionResponse, handle() has returned an
\* error (neither Join nor Disconnect), and nothing happened on the
\* connection after that read: no frame was handed to it, none is in
\* flight.
C11_MandatoryReads ==
    \A c \in Conns :
        \A i \in UnexpectedReads(c) :
            /\ pc[c] = "done"
            /\ result[c] = Failed
            /\ Len(trace[c]) = i
            /\ \A j \in Indices(c) :
                  trace[c][j].ev \in {"write", "write_err"} => j < i

\* An online login whose client answered the EncryptionRequest with a
\* second LoginStart.
C11_Witness ==
    \E c \in Conns :
        \E i \in UnexpectedReads(c) :
            /\ i = 4
            /\ trace[c][i].ev = "read"
            /\ trace[c][i].arg.type = "LoginStart"
            /\ result[c] = Failed

----------------------------------------------------------------------------
(* C20 *)

\* C20: in the status flow, once the Response has been written, a failure
\* of the read that follows (disconnect, EOF, malformed frame, a packet
\* that is no Ping) makes handle() return Disconnect, with no Pong handed
\* to the connection; and when the status flow returns an error, the last
\* thing that happened is a failed read of the Request, a failed
\* serialisation of the Response, a failed write of the Response or a
\* failed write of the Pong.
C20_StatusErrors ==
    \A c \in Conns :
        InFlow(c, "Status") =>
            /\ PingReadFailed(c) =>
                  /\ pc[c] = "done"
                  /\ result[c] = Disconnect
                  /\ Issued(c, "Pong") = {}
            /\ result[c] = Failed =>
                  LET last == trace[c][Len(trace[c])] IN
                  \/ Len(trace[c]) = 2 /\ last.ev = "read_err"
                  \/ Len(trace[c]) = 3 /\ last.ev = "serialize_err"
                  \/ /\ last.ev = "write_err"
                     /\ last.arg.pkt.type \in {"Response", "Pong"}
            /\ result[c].kind \in {"none", "Err", "Disconnect"}

\* A status connection that ended in Disconnect on a failed Ping read,
\* without a Pong.
C20_Witness ==
    \E c \in Conns :
        /\ InFlow(c, "Status")
        /\ Len(trace[c]) = 4
        /\ trace[c][4].ev = "read_err"
        /\ trace[c][3].ev = "write"
        /\ result[c] = Disconnect
        /\ Issued(c, "Pong") = {}

----------------------------------------------------------------------------
(* C12 *)

\* The slot numbers of the on-disk format
DiskHotbar == 0..8
DiskMain == 9..35
DiskArmor == 100..103
DiskOffhand == {-106}
ValidDisk == DiskHotbar \cup DiskMain \cup DiskArmor \cup DiskOffhand

\* C12: the round trip from disk to network is the identity on every
\* valid slot.  For a slot s of the hotbar (0..8), the main inventory
\* (9..35), the armor (100..103) or the off-hand (-106), convert_index()
\* gives Some(n), with n = SLOT_HOTBAR_OFFSET + s for the hotbar, n = s for
\* the main inventory, n = 108 - s for the armor (103, the head, is
\* SLOT_ARMOR_MIN; the armor lies in SLOT_ARMOR_MIN..SLOT_ARMOR_MAX) and
\* n = SLOT_OFFHAND for the off-hand; and from_network_index(n, stack)
\* gives Some slot whose number is s again, for every stack.
C12_DiskRoundTrip ==
    LET s == player.from.slot IN
    (player.fn = "disk" /\ s \in ValidDisk) =>
        /\ Called("convert_index") =>
              /\ player.network.some
              /\ s \in DiskHotbar => player.network.val = SLOT_HOTBAR_OFFSET + s
              /\ s \in DiskMain => player.network.val = s
              /\ s \in DiskArmor =>
                    /\ player.network.val = 108 - s
                    /\ player.network.val \in SLOT_ARMOR_MIN..SLOT_ARMOR_MAX
              /\ s = 103 => player.network.val = SLOT_ARMOR_MIN
              /\ s \in DiskOffhand => player.network.val = SLOT_OFFHAND
        /\ Called("from_network_index") =>
              /\ player.self.some
              /\ player.self.val.slot = s

\* The helmet slot went to the network and came back.
C12_Witness ==
    /\ player.fn = "disk"
    /\ player.from.slot = 103
    /\ player.calls = <<"convert_index", "from_network_index">>
    /\ player.network = Some(SLOT_ARMOR_MIN)
    /\ player.self.some
    /\ player.self.val.slot = 103

----------------------------------------------------------------------------
(* C13 *)

\* The network indices covered by one of the four ranges
Covered(n) ==
    \/ SLOT_HOTBAR_OFFSET <= n /\ n < SLOT_HOTBAR_OFFSET + HOTBAR_SIZE
    \/ n = SLOT_OFFHAND
    \/ SLOT_ARMOR_MIN <= n /\ n <= SLOT_ARMOR_MAX
    \/ SLOT_INVENTORY_OFFSET <= n /\ n < SLOT_INVENTORY_OFFSET + INVENTORY_SIZE

\* C13: the round trip from network to disk is the identity on every
\* covered index.  from_network_index(n, stack) of a covered n gives a
\* slot whose number lies in one of the four on-disk ranges and whose
\* convert_index() is Some(n); an n that no range covers (the crafting
\* slots 0..4, anything above SLOT_OFFHAND) gives None.
C13_NetworkRoundTrip ==
    LET n == player.from IN
    player.fn = "network" =>
        /\ Called("from_network_index") =>
              IF Covered(n)
              THEN /\ player.self.some
                   /\ player.self.val.slot \in ValidDisk
              ELSE player.self = None
        /\ ~Covered(n) <=> (n \in 0..4 \/ n > SLOT_OFFHAND)
        /\ Called("convert_index") => player.network = Some(n)

\* A chestplate index went to disk form and came back.
C13_Witness ==
    /\ player.fn = "network"
    /\ player.from = 6
    /\ player.calls = <<"from_network_index", "convert_index">>
    /\ player.self.val.slot = 102
    /\ player.network = Some(6)

----------------------------------------------------------------------------
(* C14 *)

InvalidDisk == (-128..-107) \cup (-105..-1) \cup (36..99) \cup (104..127)

\* C14: convert_index() of a slot whose number lies outside the four
\* valid ranges (-128..-107, -105..-1, 36..99, 104..127: every other
\* signed 8-bit value) is None; no such slot gives an index.
C14_InvalidSlots ==
    /\ InvalidDisk = I8 \ ValidDisk
    /\ (/\ player.fn = "disk"
        /\ player.from.slot \in InvalidDisk
        /\ Called("convert_index"))
       => player.network = None

\* convert_index() was applied to slot -1.
C14_Witness ==
    /\ player.fn = "disk"
    /\ player.from.slot = -1
    /\ player.calls = <<"convert_index">>
    /\ player.network = None

----------------------------------------------------------------------------
(* C18 *)

\* C18 as stated: to_stack() of a slot with an unknown identifier gives
\* Air, of a slot with a known identifier that item, and the amount of the
\* stack equals the count of the slot, for every signed 8-bit count.
C18_AmountIsCount ==
    (player.fn = "disk" /\ Called("to_stack")) =>
        /\ player.stack.some
        /\ player.stack.val.ty
              = IF \E item \in Items : Identifier(item) = player.from.item
                THEN CHOOSE item \in Items : Identifier(item) = player.from.item
                ELSE "Air"
        /\ player.stack.val.amount = player.from.count

\* C18, amended: the type is as stated; the amount is the count taken as
\* an unsigned 8-bit value: the count itself from 0 to 127, the count plus
\* 256 for a negative count.
C18_AmountIsCountAsU8 ==
    (player.fn = "disk" /\ Called("to_stack")) =>
        /\ player.stack.some
        /\ player.stack.val.ty
              = IF \E item \in Items : Identifier(item) = player.from.item
                THEN CHOOSE item \in Items : Identifier(item) = player.from.item
                ELSE "Air"
        /\ player.stack.val.amount
              = IF player.from.count >= 0
                THEN player.from.count
                ELSE player.from.count + 256

\* A slot of count -1 with an unknown identifier became 255 of Air.
C18_Witness ==
    /\ player.fn = "disk"
    /\ player.calls = <<"to_stack">>
    /\ player.from.count = -1
    /\ player.from.item = "invalid:identifier"
    /\ player.stack = Some(ItemStack("Air", 255))

----------------------------------------------------------------------------
(* C17 *)

\* The two hexadecimal digits of every byte, in order
RECURSIVE Nibbles(_)
Nibbles(bytes) ==
    IF bytes = <<>> THEN <<>>
    ELSE <<HexDigits[(bytes[1] \div 16) + 1], HexDigits[(bytes[1] % 16) + 1]>>
         \o Nibbles(Tail(bytes))

\* Leading zeros removed, down to one digit
RECURSIVE StripZeros(_)
StripZeros(digits) ==
    IF digits = <<>> THEN <<"0">>
    ELSE IF digits[1] = "0" /\ Len(digits) > 1 THEN StripZeros(Tail(digits))
    ELSE digits

\* bytes + 1, byte by byte from the right (the carry out of the left end
\* is dropped)
RECURSIVE PlusOne(_)
PlusOne(bytes) ==
    IF bytes = <<>> THEN <<>>
    ELSE LET n == Len(bytes) IN
         IF bytes[n] < 255
         THEN [bytes EXCEPT ![n] = @ + 1]
         ELSE Append(PlusOne(SubSeq(bytes, 1, n - 1)), 0)

\* The magnitude of a negative two's-complement number: every bit
\* inverted, plus one
Magnitude(bytes) == PlusOne([i \in 1..Len(bytes) |-> 255 - bytes[i]])

\* C17: hexdigest renders its input as a signed big-endian
\* two's-complement integer in lowercase hexadecimal.  With the top bit of
\* the first byte set the output is "-" followed by the hex digits of the
\* magnitude; otherwise it is the hex digits of the value; there is never
\* a leading zero digit; an all-zero input gives "0".
C17_Hexdigest ==
    (digest.fn = "hexdigest" /\ digest.out.some) =>
        LET bytes == digest.bytes
            out == digest.out.val
            negative == bytes # <<>> /\ bytes[1] >= 128
            digits == IF negative THEN Tail(out) ELSE out
        IN  /\ out # <<>>
            /\ negative <=> out[1] = "-"
            /\ digits = IF negative
                        THEN StripZeros(Nibbles(Magnitude(bytes)))
                        ELSE StripZeros(Nibbles(bytes))
            /\ \A i \in 1..Len(digits) : \E d \in 1..16 : digits[i] = HexDigits[d]
            /\ digits[1] = "0" => Len(digits) = 1
            /\ (\A i \in 1..Len(bytes) : bytes[i] = 0) => out = <<"0">>

\* The digest ff 10 came out as -f0, and was not dumped as ff10.
C17_Witness ==
    /\ digest.fn = "hexdigest"
    /\ digest.bytes = <<255, 16>>
    /\ digest.out = Some(<<"-", "f", "0">>)

----------------------------------------------------------------------------
(* Concurrent connection tasks.  Every connection runs handle(); the     *)
(* executor polls the tasks in any order.  No read and no write fails;   *)
(* the peers send well-formed packets with one user name and one Ping     *)
(* payload, where the status client may also close after the Response; a  *)
(* client encrypts the token it was sent and one shared secret, under the key it *)
(* was sent or under a key of its own; the verify token drawn is the      *)
(* all-zero one; the session service answers 200 with a profile or 403    *)
(* with an error document.                                                *)

ZeroToken == [i \in 1..TokenLen |-> 0]

Calm(c) ==
    /\ loc[c].verify_token \in {NoLocals.verify_token, ZeroToken}
    /\ \A i \in Indices(c) :
        LET e == trace[c][i] IN
        /\ e.ev \notin {"write_err", "serialize_err"}
        /\ e.ev = "read_err" => pc[c] = "done" /\ result[c] = Disconnect
        /\ (e.ev = "read" /\ e.arg.type = "LoginStart") => e.arg.name = "alice"
        /\ (e.ev = "read" /\ e.arg.type = "Ping") => e.arg.payload = <<0, 0, 0, 0, 0, 0, 0, 0>>
        /\ (e.ev = "read" /\ e.arg.type = "EncryptionResponse") =>
              /\ e.arg.shared_secret.k \in RsaKeys
              /\ e.arg.shared_secret.k = e.arg.verify_token.k
              /\ e.arg.shared_secret.m = ZeroToken
              /\ e.arg.verify_token.m = ZeroToken
        /\ e.ev = "new_uuid" => \A u \in Uuids : e.arg <= u
        /\ e.ev = "auth_return" =>
              /\ e.arg.joined
              /\ \/ e.arg.status = 200 /\ e.arg.body.json /\ e.arg.body.name = "alice"
                    /\ \A u \in Uuids : e.arg.body.id <= u
                 \/ e.arg.status = 403 /\ ~e.arg.body.json

InitConc ==
    /\ online_mode \in BOOLEAN
    /\ max_players = 20
    /\ player_count = 0
    /\ NoTasks
    /\ player = NoCall
    /\ digest = NoCall

NextConc ==
    \/ \E c \in Conns : Start(c)
    \/ \E c \in Conns : HandshakeRead(c) /\ Calm(c)'
    \/ \E c \in Conns : RequestRead(c) /\ Calm(c)'
    \/ \E c \in Conns : ResponseWritten(c) /\ Calm(c)'
    \/ \E c \in Conns : PingRead(c) /\ Calm(c)'
    \/ \E c \in Conns : PongWritten(c) /\ Calm(c)'
    \/ \E c \in Conns : LoginRead(c) /\ Calm(c)'
    \/ \E c \in Conns : EncryptionRequestWritten(c) /\ Calm(c)'
    \/ \E c \in Conns : EncryptionResponseRead(c) /\ Calm(c)'
    \/ \E c \in Conns : AuthReturned(c) /\ Calm(c)'
    \/ \E c \in Conns : LoginSuccessWritten(c) /\ Calm(c)'

SpecConc == InitConc /\ [][NextConc]_vars

----------------------------------------------------------------------------
(* C15 *)

\* C15: however many connection tasks run the online login, the RSA key
\* pair is generated once and its DER encoding is computed once (the
\* initializer of each Lazy has run at most once, and once when the value
\* is there); every EncryptionRequest handed to a connection carries that
\* encoding, every server hash was computed over it, and every shared
\* secret a handshake gave is the decryption of the client's field under
\* that key.
C15_OneKey ==
    /\ rsa_key.runs <= 1
    /\ rsa_key_encoded.runs <= 1
    /\ rsa_key.init <=> rsa_key.runs = 1
    /\ rsa_key_encoded.init <=> rsa_key_encoded.runs = 1
    /\ rsa_key_encoded.init =>
          /\ rsa_key.init
          /\ rsa_key_encoded.der = PublicKeyToDer(rsa_key.key)
    /\ \A c \in Conns :
          /\ \A f \in Issued(c, "EncryptionRequest") :
                /\ rsa_key_encoded.init
                /\ f.pkt.public_key = rsa_key_encoded.der
          /\ \A i \in EventsOf(c, "auth_call") :
                trace[c][i].arg.server_hash.public_key = rsa_key_encoded.der
          /\ \A i \in EventsOf(c, "handshake_ok") :
                /\ i > 1
                /\ trace[c][i - 1].ev = "read"
                /\ trace[c][i - 1].arg.type = "EncryptionResponse"
                /\ Decrypt(rsa_key, trace[c][i - 1].arg.shared_secret)
                      = Ok(trace[c][i].arg)

\* Two connections were both sent an EncryptionRequest, one of them has
\* gone on to the session lookup, and the key was generated once.
C15_Witness ==
    \E c \in Conns, d \in Conns :
        /\ c # d
        /\ WritesOf(c, "EncryptionRequest") # {}
        /\ EventsOf(c, "auth_call") # {}
        /\ WritesOf(d, "EncryptionRequest") # {}
        /\ rsa_key.runs = 1
        /\ rsa_key_encoded.runs = 1

----------------------------------------------------------------------------
(* C16 *)

\* C16: within one connection the I/O is sequential.  At most one read or
\* write of a connection is in flight, it is the one its task is
\* suspended at, so that while a read is in flight no write of the
\* connection is (every write issued before has completed), and a task
\* that has returned has nothing in flight; this in the status flow, the
\* offline login and the online login alike.  The operations of different
\* connections are not ordered (C16_Witness).
C16_SequentialIo ==
    \A c \in Conns :
        /\ Cardinality(io[c]) <= 1
        /\ io[c] \subseteq IoOf(pc[c])
        /\ \A o \in io[c] :
              o.op = "read" =>
                 Cardinality(IssuedFrames(c))
                    = Cardinality(EventsOf(c, "write") \cup EventsOf(c, "write_err"))
        /\ pc[c] = "done" => io[c] = {}

\* One connection has the read of the Ping in flight while another has
\* the write of its LoginSuccess in flight.
C16_Witness ==
    \E c \in Conns, d \in Conns :
        /\ c # d
        /\ io[c] = {[op |-> "read", at |-> "r_ping"]}
        /\ WritesOf(c, "Response") # {}
        /\ io[d] = {[op |-> "write", at |-> "w_success"]}

----------------------------------------------------------------------------
(* Cancellation.  The surrounding server may drop the future of handle()  *)
(* while the task is suspended: at a read, at a write, or at the await of *)
(* the blocking session lookup.  The pending operation is dropped with    *)
(* it, handle() returns nothing, and the blocking task, once spawned, is  *)
(* not stopped.                                                           *)

SuspensionPoints == ReadAwaits \cup WriteAwaits \cup {"auth"}

Cancel(c) ==
    /\ pc[c] \in SuspensionPoints
    /\ pc' = [pc EXCEPT ![c] = "cancelled"]
    /\ trace' = [trace EXCEPT ![c] =
                    Append(@, Event("cancel",
                                    [at |-> pc[c],
                                     out |-> IF pc[c] \in WriteAwaits
                                             THEN loc[c].out ELSE NoFrame]))]
    /\ io' = [io EXCEPT ![c] = {}]
    /\ UNCHANGED <<Pure, Server, Keys, loc, codec, result>>

NextCancel ==
    \/ Next
    \/ \E c \in Solo : Cancel(c)

SpecCancel == Init /\ [][NextCancel]_vars

----------------------------------------------------------------------------
(* C19 *)

\* The connection was cancelled after the EncryptionResponse had been
\* decrypted (the handshake gave the shared secret) and before the write
\* of LoginSuccess completed.
CancelledInLogin(c) ==
    /\ pc[c] = "cancelled"
    /\ EventsOf(c, "handshake_ok") # {}

\* The events of the connection after the decryption, the cancellation
\* left out
AfterDecryption(c) ==
    {i \in Indices(c) :
        /\ \E h \in EventsOf(c, "handshake_ok") : h < i
        /\ trace[c][i].ev # "cancel"}

\* C19 as stated: a connection cancelled in that interval has produced no
\* externally visible side effect in it: no frame written to the client,
\* no request issued to an external party, no player record handed to the
\* server.
C19_NoSideEffect ==
    \A c \in Conns :
        CancelledInLogin(c) =>
            /\ \A i \in AfterDecryption(c) :
                  trace[c][i].ev \notin {"write", "write_err", "auth_call"}
            /\ result[c] = NoResult

\* What a cancelled connection shows after the decryption.
C19_CancelledState ==
    \A c \in Conns :
        CancelledInLogin(c) =>
            LET cancel == trace[c][Len(trace[c])].arg IN
            /\ trace[c][Len(trace[c])].ev = "cancel"
            /\ cancel.at \in {"auth", "w_success"}
            /\ cancel.at = "w_success" => cancel.out.pkt.type = "LoginSuccess"
            /\ \A i \in AfterDecryption(c) :
                  trace[c][i].ev \in {"encrypt", "auth_call", "auth_return"}
            /\ Cardinality({i \in AfterDecryption(c) : trace[c][i].ev = "auth_call"}) = 1
            /\ result[c] = NoResult

\* A step of a task from the decryption to the write of LoginSuccess, its
\* cancellation included, leaves the shared state as it is.
C19_SharedUntouched ==
    \A c \in Conns :
        (pc[c] \in {"r_encresp", "auth", "w_success"} /\ pc'[c] # pc[c]) =>
            /\ online_mode' = online_mode
            /\ max_players' = max_players
            /\ player_count' = player_count
            /\ rsa_key' = rsa_key
            /\ rsa_key_encoded' = rsa_key_encoded

\* C19, amended: a connection cancelled at a suspension point after the
\* decryption of the EncryptionResponse and before LoginSuccess is written
\* was cancelled at the await of the session lookup or at the pending
\* write of LoginSuccess; in that interval it has issued exactly one
\* request to an external party, the session lookup, and nothing else is
\* visible: no frame was written to the client, handle() returned no
\* player, and no step of the interval changed the shared state.
C19_OnlyTheLookup == [] C19_CancelledState /\ [][C19_SharedUntouched]_vars

\* A connection was cancelled while the session lookup was under way.
C19_Witness ==
    \E c \in Conns :
        /\ CancelledInLogin(c)
        /\ trace[c][Len(trace[c])].arg.at = "auth"
        /\ EventsOf(c, "auth_call") # {}
        /\ EventsOf(c, "auth_return") = {}

====
